---- MODULE Spec2Model ----
(***************************************************************************)
(* The order execution engine of fx_trader: the OANDA broker adapter       *)
(* (execution/oanda_broker_client.py), its tenacity retry decorators, and  *)
(* the orchestration task that stands where the execution coordinator      *)
(* would be (orchestrator/prefect_flow.py).                                *)
(*                                                                         *)
(* Conventions.  A Python dict is a TLA+ record holding exactly the keys   *)
(* that are present; Get(d, k, default) is dict.get.  The text of a        *)
(* V20Error is the set of marker phrases it contains, so that the code's   *)
(* substring tests ("X" in str(e)) are membership tests.  A numeric string *)
(* is converted by the table FloatOf.  OrderType[name] is read as the      *)
(* member lookup it is written as: it yields the member for MARKET, LIMIT  *)
(* and STOP and raises for every other name.                               *)
(*                                                                         *)
(* The adapter's methods are coroutines whose only suspension point is the *)
(* back-off sleep of the retry decorator (api.request is a blocking call), *)
(* so one attempt of a method is one atomic step.                          *)
(***************************************************************************)
EXTENDS Integers, Sequences, FiniteSets, TLC

(***************************************************************************)
(* Bounds of the model.                                                    *)
(***************************************************************************)
MaxCalls == 2

(***************************************************************************)
(* Program constants.                                                      *)
(***************************************************************************)
MaxAttempts == 3
WaitMultiplier == 1
WaitMin == 2
WaitMax == 10
HTTP_BAD_REQUEST == 400
HTTP_NOT_FOUND == 404

Tasks == {"t1", "t2"}
Instruments == {"EUR_USD"}
OrderIds == {"o1", "o2"}
UnknownOrderId == "o0"
KnownIds == OrderIds \cup {UnknownOrderId}
Callers == {"t1"}
Absent == "<absent>"

NOT_FOUND == "Order not found"
ALREADY_CANCELLED == "already been cancelled"
CLOSEOUT_FAILED == "POSITION_CLOSEOUT_FAILED"
REDUCE_ONLY == "UNITS_REDUCE_ONLY"

(***************************************************************************)
(* OrderStatus and OrderType of execution/abstract_broker_client.py.       *)
(***************************************************************************)
OrderStatus ==
    {"PENDING", "FILLED", "CANCELLED", "REJECTED", "EXPIRED", "PARTIALLY_FILLED"}

OrderType == {"MARKET", "LIMIT", "STOP"}

Terminal == {"FILLED", "CANCELLED", "REJECTED", "EXPIRED"}

Get(d, k, dflt) == IF k \in DOMAIN d THEN d[k] ELSE dflt

Upper(s) ==
    CASE s = "market" -> "MARKET"
      [] s = "limit" -> "LIMIT"
      [] s = "stop" -> "STOP"
      [] OTHER -> s

FloatOf(s) ==
    CASE s = "0" -> 0
      [] s = "100" -> 100
      [] s = "-100" -> -100
      [] s = "250" -> 250
      [] s = "-250" -> -250
      [] OTHER -> 0

OANDA_ORDER_STATE_MAP_native_triggered ==
    [PENDING |-> "PENDING",
     FILLED |-> "FILLED",
     TRIGGERED |-> "TRIGGERED",
     CANCELLED |-> "CANCELLED",
     REJECTED |-> "REJECTED",
     EXPIRED |-> "EXPIRED"]

OANDA_ORDER_STATE_MAP ==
    [PENDING |-> "PENDING",
     FILLED |-> "FILLED",
     TRIGGERED |-> "FILLED",
     CANCELLED |-> "CANCELLED",
     REJECTED |-> "REJECTED",
     EXPIRED |-> "EXPIRED"]

MapGet(k, dflt) ==
    IF k \in DOMAIN OANDA_ORDER_STATE_MAP THEN OANDA_ORDER_STATE_MAP[k] ELSE dflt

(***************************************************************************)
(* OandaTradeOrder.__init__: the canonical order built from a broker       *)
(* response.  exc is "" when the constructor returns and names the         *)
(* exception when it raises.                                               *)
(***************************************************************************)
TransactionKey_create_first(resp) ==
    IF "orderCreateTransaction" \in DOMAIN resp THEN "orderCreateTransaction"
    ELSE IF "orderFillTransaction" \in DOMAIN resp THEN "orderFillTransaction"
    ELSE IF "orderCancelTransaction" \in DOMAIN resp THEN "orderCancelTransaction"
    ELSE Absent

TransactionKey(resp) ==
    IF "orderFillTransaction" \in DOMAIN resp THEN "orderFillTransaction"
    ELSE IF "orderCancelTransaction" \in DOMAIN resp THEN "orderCancelTransaction"
    ELSE IF "orderCreateTransaction" \in DOMAIN resp THEN "orderCreateTransaction"
    ELSE Absent

OrderData(resp) ==
    IF TransactionKey(resp) # Absent THEN resp[TransactionKey(resp)] ELSE resp

StatusOfResponse(resp) ==
    LET key == TransactionKey(resp)
        data == OrderData(resp)
    IN  CASE key = "orderFillTransaction" -> MapGet(Get(data, "type", Absent), "FILLED")
          [] key = "orderCancelTransaction" -> "CANCELLED"
          [] key = "orderCreateTransaction" -> MapGet(Get(data, "state", "PENDING"), "PENDING")
          [] OTHER -> MapGet(Get(data, "state", Absent), "PENDING")

OrderTypeOf(data, order_type_override) ==
    IF order_type_override # Absent THEN order_type_override
    ELSE IF Upper(Get(data, "type", "MARKET")) \in OrderType
         THEN Upper(Get(data, "type", "MARKET"))
         ELSE "KeyError"

OandaTradeOrder(resp, order_type_override) ==
    LET data == OrderData(resp)
        ty == OrderTypeOf(data, order_type_override)
    IN  [exc |-> IF ty = "KeyError" THEN "KeyError" ELSE "",
         order_id |-> IF "id" \in DOMAIN data THEN data["id"] ELSE "None",
         status |-> StatusOfResponse(resp),
         instrument |-> Get(data, "instrument", Absent),
         units |-> FloatOf(Get(data, "units", "0")),
         order_type |-> ty]

NoOrder ==
    [exc |-> "", order_id |-> Absent, status |-> Absent, instrument |-> Absent,
     units |-> 0, order_type |-> Absent]

(***************************************************************************)
(* What one attempt, and one call, ends with: an order, a plain value, or  *)
(* an exception (exc) that carries the broker's HTTP code when it is a     *)
(* V20Error.                                                               *)
(***************************************************************************)
NoOutcome == [kind |-> "none", exc |-> "", code |-> 0, order |-> NoOrder]
Returned(order) ==
    IF order.exc # ""
    THEN [kind |-> "raise", exc |-> order.exc, code |-> 0, order |-> NoOrder]
    ELSE [kind |-> "order", exc |-> "", code |-> 0, order |-> order]
Value == [kind |-> "value", exc |-> "", code |-> 0, order |-> NoOrder]
Raised(exc, code) == [kind |-> "raise", exc |-> exc, code |-> code, order |-> NoOrder]

(***************************************************************************)
(* The retry decorator every adapter method carries:                       *)
(* @retry(stop=stop_after_attempt(3),                                      *)
(*        wait=wait_exponential(multiplier=1, min=2, max=10),              *)
(*        retry=retry_if_exception_type(V20Error)).                        *)
(***************************************************************************)
retry_if_exception_type(out) == out.kind = "raise" /\ out.exc = "V20Error"

stop_after_attempt_off_by_one(n) == n > MaxAttempts

stop_after_attempt(n) == n >= MaxAttempts

Pow2(n) == IF n <= 0 THEN 1 ELSE IF n = 1 THEN 2 ELSE IF n = 2 THEN 4 ELSE 8

Min2(a, b) == IF a < b THEN a ELSE b
Max2(a, b) == IF a > b THEN a ELSE b

wait_exponential(n) == Max2(WaitMin, Min2(WaitMultiplier * Pow2(n - 1), WaitMax))

(***************************************************************************)
(* State.                                                                  *)
(*   task         each caller task's current call of an adapter method     *)
(*   orderState   the broker's own state of every order id                 *)
(*   orderCid     the client correlation id the broker stored with it      *)
(*   pos          the broker's open sides of every instrument              *)
(*   lastReported the status the adapter last returned for every order id  *)
(*   ncalls       the number of calls started                              *)
(*   execution    what execute_trades_task returned for the generated      *)
(*                signals (Absent before it ran)                           *)
(*   risk         the latest call of a RiskManager method: the manager's   *)
(*                settings, the arguments, the account's state at the time *)
(*                of the call, and what the call returned or raised        *)
(*   trading      the TradingParameters object in use, with the latest     *)
(*                construction or assignment and what it raised            *)
(*   built        the latest object an adapter built from the broker's     *)
(*                data, a Position or a TradeOrder: the data and the       *)
(*                object                                                   *)
(*   candles      the historical-candles query: where it is, its attempts  *)
(*                and the HTTP requests it has sent                        *)
(***************************************************************************)
VARIABLES task, orderState, orderCid, pos, lastReported, ncalls, execution, risk,
          trading, built, candles

vars == <<task, orderState, orderCid, pos, lastReported, ncalls, execution, risk,
          trading, built, candles>>

TxnId == [o1 |-> "t1", o2 |-> "t2"]
CloseTxnId == [long |-> "tL", short |-> "tS"]
NO_POSITION_ID == "N/A_NO_POSITION"
AllIds == KnownIds \cup {"t1", "t2", "tL", "tS", NO_POSITION_ID, "None"}

TransientCodes == {503}
PyNone == [none |-> TRUE]
Truthy(d) == d # PyNone /\ DOMAIN d # {}

\* What a task keeps of one side's close request: the code and text of the
\* broker's answer (code 0: closed), or Unsent.
Unsent == [code |-> -1, msg |-> {}]
Answer(reply) == [code |-> reply.code, msg |-> reply.msg]

IdleTask ==
    [op |-> "idle", pc |-> "idle", arg |-> Absent, units |-> Absent,
     typ |-> Absent, hasPrice |-> FALSE, badPrice |-> FALSE, cid |-> 0,
     attempt |-> 0, wait |-> 0, out |-> NoOutcome, result |-> NoOutcome,
     sent |-> <<>>, reply |-> Unsent, long |-> Unsent, short |-> Unsent,
     wire |-> Absent]

(***************************************************************************)
(* Python floats, for the risk manager.  A float is a record: NaN, or a    *)
(* number v.  Comparisons with NaN are false, arithmetic on NaN gives NaN. *)
(* Prices and price distances are counted in quarters of the spacing       *)
(* (Ulp) between two neighbouring floats near the entry price: a sum or    *)
(* difference of a price and a distance is rounded to the nearest float,   *)
(* ties to even, so a distance under half a spacing is absorbed.           *)
(***************************************************************************)
F(v) == [nan |-> FALSE, v |-> v]
NaN == [nan |-> TRUE, v |-> 0]
IsNone(x) == x = PyNone

FLt(a, b) == ~a.nan /\ ~b.nan /\ a.v < b.v
FLe(a, b) == ~a.nan /\ ~b.nan /\ a.v <= b.v
FGt(a, b) == FLt(b, a)
FGe(a, b) == FLe(b, a)
FEq(a, b) == ~a.nan /\ ~b.nan /\ a.v = b.v

Ulp == 4

RoundToFloat(x) ==
    LET q == x \div Ulp
        r == x % Ulp
    IN  IF 2 * r < Ulp THEN Ulp * q
        ELSE IF 2 * r > Ulp THEN Ulp * (q + 1)
        ELSE IF q % 2 = 0 THEN Ulp * q ELSE Ulp * (q + 1)

FAdd(a, b) == IF a.nan \/ b.nan THEN NaN ELSE F(RoundToFloat(a.v + b.v))
FSub(a, b) == IF a.nan \/ b.nan THEN NaN ELSE F(RoundToFloat(a.v - b.v))

\* No call of the risk manager yet.
NoRiskCall ==
    [op |-> "none", params |-> PyNone, account_balance |-> 0,
     signal |-> PyNone, historical_df |-> PyNone,
     proposed_size_lots |-> PyNone, account |-> PyNone,
     pair |-> Absent, entry_price |-> PyNone, stop_loss_price |-> PyNone,
     pip_value_per_lot |-> PyNone, result |-> PyNone]

(***************************************************************************)
(* The risk manager (execution/risk_manager.py) and its settings           *)
(* (config/trading_params.py).  Units: MAX_DRAWDOWN_PCT in percent,        *)
(* ACCOUNT_RISK_PER_TRADE_PCT in thousandths, the ATR multipliers in       *)
(* halves, the news and correlation thresholds in tenths, pips, basis      *)
(* points and minutes as numbers, balances and portfolio values in account *)
(* currency, lot sizes in ten-thousandths of a lot.                        *)
(***************************************************************************)
TradingParameters ==
    [MAX_POSITIONS_PER_CURRENCY |-> 2,
     MAX_CONCURRENT_POSITIONS |-> 5,
     MAX_DRAWDOWN_PCT |-> 10,
     ACCOUNT_RISK_PER_TRADE_PCT |-> 10,
     DEFAULT_SL_PIPS |-> 50,
     DEFAULT_TP_PIPS |-> 100,
     SLIPPAGE_TOLERANCE_BPS |-> 5,
     ATR_PERIOD_FOR_SIZING |-> 14,
     ATR_MULTIPLIER_FOR_SL |-> 4,
     ATR_MULTIPLIER_FOR_TP |-> 6,
     NEWS_SENTIMENT_THRESHOLD |-> 2,
     CORRELATION_THRESHOLD |-> 7,
     MIN_TRADE_DURATION_MINUTES |-> 15]

NoKwargs == [f \in {} |-> 0]

\* settings.TRADING as the module builds it: TradingParameters().
DefaultSettings ==
    [params |-> TradingParameters, op |-> "none", kwargs |-> NoKwargs,
     exc |-> "", assignments |-> 0]

\* No Position or TradeOrder built yet.
NothingBuilt ==
    [cls |-> "none", data |-> PyNone, order_type_override |-> Absent,
     result |-> PyNone]

\* No historical-candles query yet.
IdleCandles ==
    [pc |-> "idle", instrument |-> Absent, granularity |-> Absent,
     outer |-> 0, inner |-> 0, requests |-> 0, error |-> PyNone,
     result |-> PyNone]

NewCall(op, arg) == [IdleTask EXCEPT !.op = op, !.pc = "run", !.arg = arg]

Init ==
    /\ task = [t \in Tasks |-> IdleTask]
    /\ orderState \in {[o \in KnownIds |-> IF o = "o1" THEN s ELSE "NONE"] :
                         s \in {"NONE", "PENDING"}}
    /\ orderCid = [o \in OrderIds |-> 0]
    /\ pos \in [Instruments -> [long : BOOLEAN, short : BOOLEAN]]
    /\ lastReported = [i \in AllIds |-> "none"]
    /\ ncalls = 0
    /\ execution = Absent
    /\ risk = NoRiskCall
    /\ trading = DefaultSettings
    /\ built = NothingBuilt
    /\ candles = IdleCandles

(***************************************************************************)
(* The decorator's decision after attempt n of a call ended with out:      *)
(* return or raise what the attempt did, sleep and retry, or give up with  *)
(* RetryError (tenacity's default, reraise=False) around the last error.   *)
(***************************************************************************)
AfterAttempt_with_error_callback(call, n, out) ==
    IF retry_if_exception_type(out)
    THEN IF stop_after_attempt(n)
         THEN [call EXCEPT !.pc = "done", !.attempt = n, !.out = out, !.result = Value]
         ELSE [call EXCEPT !.pc = "sleep", !.attempt = n, !.out = out,
                           !.wait = wait_exponential(n)]
    ELSE [call EXCEPT !.pc = "done", !.attempt = n, !.out = out, !.result = out]

AfterAttempt(call, n, out) ==
    IF retry_if_exception_type(out)
    THEN IF stop_after_attempt(n)
         THEN [call EXCEPT !.pc = "done", !.attempt = n, !.out = out,
                           !.result = Raised("RetryError", out.code)]
         ELSE [call EXCEPT !.pc = "sleep", !.attempt = n, !.out = out,
                           !.wait = wait_exponential(n)]
    ELSE [call EXCEPT !.pc = "done", !.attempt = n, !.out = out, !.result = out]

Report(call) ==
    IF call.pc = "done" /\ call.result.kind = "order"
    THEN [lastReported EXCEPT ![call.result.order.order_id] = call.result.order.status]
    ELSE lastReported

Conclude(t, call, n, out) ==
    /\ UNCHANGED <<execution, risk, trading, built, candles>>
    /\ task' = [task EXCEPT ![t] = AfterAttempt(call, n, out)]
    /\ lastReported' = Report(AfterAttempt(call, n, out))

Begin(t) == task[t].pc \in {"idle", "done"} /\ ncalls < MaxCalls

\* The order ids a caller can name: those of existing orders, and one the
\* broker never issued.
CallableIds == {o \in KnownIds : o = UnknownOrderId \/ orderState[o] # "NONE"}

Resume(t, op) == task[t].pc = "sleep" /\ task[t].op = op

(***************************************************************************)
(* The broker's answers to api.request.  code = 0 is a completed request;  *)
(* any other code is the V20Error api.request raises, msg the phrases its  *)
(* text holds.  response is what the request object's response attribute   *)
(* holds afterwards: the body of a completed request, and after an error   *)
(* either the error body or nothing (PyNone).  A transient answer may come *)
(* with the request carried out (its acknowledgement was lost) or not.     *)
(***************************************************************************)
ErrorReplies(code, msg, state) ==
    {[code |-> code, msg |-> msg, response |-> r, state |-> state] :
        r \in {PyNone, [errorMessage |-> msg]}}

TransientReplies(state) ==
    {[code |-> c, msg |-> {}, response |-> PyNone, state |-> state] : c \in TransientCodes}

OrderCancelReplies(o) ==
    IF orderState[o] = "PENDING"
    THEN {[code |-> 0, msg |-> {}, state |-> "CANCELLED",
           response |-> [orderCancelTransaction |-> tx]] :
             tx \in {[id |-> TxnId[o], orderID |-> o, type |-> "ORDER_CANCEL"],
                     [id |-> TxnId[o], orderID |-> o]}}
         \cup TransientReplies("CANCELLED") \cup TransientReplies("PENDING")
    ELSE ErrorReplies(HTTP_NOT_FOUND,
                      IF orderState[o] = "CANCELLED" THEN {ALREADY_CANCELLED}
                                                     ELSE {NOT_FOUND},
                      orderState[o])
         \cup TransientReplies(orderState[o])

(***************************************************************************)
(* cancel_order.                                                           *)
(***************************************************************************)
already_gone(code, response) ==
    /\ code = HTTP_NOT_FOUND
    /\ Truthy(response)
    /\ \/ NOT_FOUND \in Get(response, "errorMessage", {})
       \/ ALREADY_CANCELLED \in Get(response, "errorMessage", {})

cancel_order_attempt(order_id, reply) ==
    IF reply.code = 0
    THEN Returned(OandaTradeOrder(reply.response, Absent))
    ELSE IF already_gone(reply.code, reply.response)
         THEN Returned(OandaTradeOrder(
                  [id |-> order_id, state |-> "CANCELLED", instrument |-> "UNKNOWN"],
                  "MARKET"))
         ELSE Raised("V20Error", reply.code)

cancel_order(t, call, n) ==
    \E reply \in OrderCancelReplies(call.arg) :
        /\ orderState' = [orderState EXCEPT ![call.arg] = reply.state]
        /\ Conclude(t, [call EXCEPT !.reply = Answer(reply)], n,
                    cancel_order_attempt(call.arg, reply))
        /\ UNCHANGED <<orderCid, pos>>

CallCancelOrder(t) ==
    /\ Begin(t)
    /\ ncalls' = ncalls + 1
    /\ \E o \in CallableIds : cancel_order(t, NewCall("cancel_order", o), 1)

RetryCancelOrder(t) ==
    /\ Resume(t, "cancel_order")
    /\ UNCHANGED ncalls
    /\ cancel_order(t, task[t], task[t].attempt + 1)

(***************************************************************************)
(* get_account_summary and get_open_positions.                             *)
(***************************************************************************)
QueryReplies ==
    {[code |-> 0, msg |-> {}, response |-> [lastTransactionID |-> "t"], state |-> "NONE"]}
    \cup ErrorReplies(HTTP_BAD_REQUEST, {}, "NONE") \cup TransientReplies("NONE")

query_attempt(reply) ==
    IF reply.code = 0 THEN Value ELSE Raised("V20Error", reply.code)

get_account_summary(t, call, n) ==
    \E reply \in QueryReplies :
        /\ Conclude(t, [call EXCEPT !.reply = Answer(reply)], n, query_attempt(reply))
        /\ UNCHANGED <<orderState, orderCid, pos>>

get_open_positions(t, call, n) ==
    \E reply \in QueryReplies :
        /\ Conclude(t, [call EXCEPT !.reply = Answer(reply)], n, query_attempt(reply))
        /\ UNCHANGED <<orderState, orderCid, pos>>

(***************************************************************************)
(* get_order_status.  The broker reports an order's state under its own    *)
(* name, under the alias TRIGGERED, under a name the adapter does not      *)
(* know, or not at all.                                                    *)
(***************************************************************************)
WireStates(state) ==
    {state, "UNKNOWN"} \cup (IF state = "FILLED" THEN {"TRIGGERED"} ELSE {})

OrderDetailsReplies(o) ==
    IF orderState[o] = "NONE"
    THEN ErrorReplies(HTTP_NOT_FOUND, {NOT_FOUND}, "NONE") \cup TransientReplies("NONE")
    ELSE {[code |-> 0, msg |-> {}, state |-> orderState[o],
           response |-> [order |-> [id |-> o, state |-> w, type |-> ty]]] :
             w \in WireStates(orderState[o]), ty \in {"LIMIT", "TAKE_PROFIT"}}
         \cup {[code |-> 0, msg |-> {}, state |-> orderState[o],
                response |-> [order |-> [id |-> o, type |-> "LIMIT"]]]}
         \cup TransientReplies(orderState[o])

get_order_status_attempt(reply) ==
    IF reply.code = 0
    THEN Returned(OandaTradeOrder(Get(reply.response, "order", PyNone), Absent))
    ELSE Raised("V20Error", reply.code)

\* The state name the broker put in its answer (what data.get('state') reads).
WireState(reply) ==
    IF reply.code = 0 /\ "order" \in DOMAIN reply.response
    THEN Get(reply.response["order"], "state", Absent)
    ELSE Absent

get_order_status(t, call, n) ==
    \E reply \in OrderDetailsReplies(call.arg) :
        /\ Conclude(t, [call EXCEPT !.reply = Answer(reply), !.wire = WireState(reply)],
                    n, get_order_status_attempt(reply))
        /\ UNCHANGED <<orderState, orderCid, pos>>

CallGetAccountSummary(t) ==
    /\ Begin(t)
    /\ ncalls' = ncalls + 1
    /\ get_account_summary(t, NewCall("get_account_summary", Absent), 1)

RetryGetAccountSummary(t) ==
    /\ Resume(t, "get_account_summary")
    /\ UNCHANGED ncalls
    /\ get_account_summary(t, task[t], task[t].attempt + 1)

CallGetOpenPositions(t) ==
    /\ Begin(t)
    /\ ncalls' = ncalls + 1
    /\ get_open_positions(t, NewCall("get_open_positions", Absent), 1)

RetryGetOpenPositions(t) ==
    /\ Resume(t, "get_open_positions")
    /\ UNCHANGED ncalls
    /\ get_open_positions(t, task[t], task[t].attempt + 1)

CallGetOrderStatus(t) ==
    /\ Begin(t)
    /\ ncalls' = ncalls + 1
    /\ \E o \in CallableIds : get_order_status(t, NewCall("get_order_status", o), 1)

RetryGetOrderStatus(t) ==
    /\ Resume(t, "get_order_status")
    /\ UNCHANGED ncalls
    /\ get_order_status(t, task[t], task[t].attempt + 1)

(***************************************************************************)
(* place_order.  order_details always carries a clientOrderID (the call's  *)
(* number); hasPrice is whether it has a price, badPrice whether the       *)
(* broker finds that price malformed.                                      *)
(***************************************************************************)
StrOf(n) == IF n = 100 THEN "100" ELSE IF n = -100 THEN "-100" ELSE "0"

FreeOrderIds == {o \in OrderIds : orderState[o] = "NONE"}

NextOrderId == IF "o1" \in FreeOrderIds THEN "o1" ELSE "o2"

CreateTransaction(o, req) ==
    [id |-> o, type |-> req.type, instrument |-> req.instrument, units |-> req.units]

FillTransaction(o, req) ==
    [id |-> TxnId[o], orderID |-> o, type |-> "ORDER_FILL",
     instrument |-> req.instrument, units |-> req.units]

CancelTransaction(o) == [id |-> TxnId[o], orderID |-> o, type |-> "ORDER_CANCEL"]

\* The states an accepted order is created in, with the response of each.
Accepted(o, req) ==
    IF req.type = "MARKET"
    THEN {[state |-> "FILLED",
           response |-> [orderCreateTransaction |-> CreateTransaction(o, req),
                         orderFillTransaction |-> FillTransaction(o, req)]],
          [state |-> "CANCELLED",
           response |-> [orderCreateTransaction |-> CreateTransaction(o, req),
                         orderCancelTransaction |-> CancelTransaction(o)]]}
    ELSE {[state |-> "PENDING",
           response |-> [orderCreateTransaction |-> CreateTransaction(o, req)]]}

\* The broker rejects a request whose price it cannot read; a price is part
\* of the request of a LIMIT or STOP order only.
OrderCreateReplies(req) ==
    IF req.price = "malformed"
    THEN ErrorReplies(HTTP_BAD_REQUEST, {}, "NONE") \cup TransientReplies("NONE")
    ELSE IF FreeOrderIds = {}
    THEN TransientReplies("NONE")
    ELSE {[code |-> 0, msg |-> {}, state |-> a.state, response |-> a.response] :
             a \in Accepted(NextOrderId, req)}
         \cup UNION {TransientReplies(a.state) : a \in Accepted(NextOrderId, req)}
         \cup TransientReplies("NONE")

OrderRequest(call) ==
    [instrument |-> call.arg, units |-> call.units, type |-> Upper(call.typ),
     price |-> IF Upper(call.typ) \in {"LIMIT", "STOP"}
               THEN (IF call.badPrice THEN "malformed" ELSE "1.12345")
               ELSE Absent,
     clientExtensions |-> call.cid]

price_required(call) == Upper(call.typ) \in {"LIMIT", "STOP"} /\ ~call.hasPrice

place_order_attempt(call, reply) ==
    IF reply.code = 0
    THEN IF Upper(call.typ) \in OrderType
         THEN Returned(OandaTradeOrder(reply.response, Upper(call.typ)))
         ELSE Raised("KeyError", 0)
    ELSE Raised("V20Error", reply.code)

place_order(t, call, n) ==
    IF price_required(call)
    THEN /\ Conclude(t, call, n, Raised("ValueError", 0))
         /\ UNCHANGED <<orderState, orderCid, pos>>
    ELSE \E reply \in OrderCreateReplies(OrderRequest(call)) :
            /\ Conclude(t, [call EXCEPT !.reply = Answer(reply)], n,
                        place_order_attempt(call, reply))
            /\ IF reply.state = "NONE"
               THEN UNCHANGED <<orderState, orderCid, pos>>
               ELSE /\ orderState' = [orderState EXCEPT ![NextOrderId] = reply.state]
                    /\ orderCid' = [orderCid EXCEPT ![NextOrderId] = call.cid]
                    /\ pos' = IF reply.state # "FILLED" THEN pos
                              ELSE IF FloatOf(call.units) > 0
                                   THEN [pos EXCEPT ![call.arg].long = TRUE]
                                   ELSE [pos EXCEPT ![call.arg].short = TRUE]

CallPlaceOrder(t) ==
    /\ Begin(t)
    /\ ncalls' = ncalls + 1
    /\ \E i \in Instruments, u \in {100, -100}, ty \in {"MARKET", "limit"},
          hp \in BOOLEAN, bp \in BOOLEAN :
          /\ bp => hp
          /\ place_order(t, [NewCall("place_order", i) EXCEPT
                                !.units = StrOf(u), !.typ = ty, !.hasPrice = hp,
                                !.badPrice = bp, !.cid = ncalls + 1], 1)

RetryPlaceOrder(t) ==
    /\ Resume(t, "place_order")
    /\ UNCHANGED ncalls
    /\ place_order(t, task[t], task[t].attempt + 1)

(***************************************************************************)
(* close_position.                                                         *)
(***************************************************************************)
AbsStr(units) == IF FloatOf(units) = 0 THEN "0.0" ELSE "100.0"

long_units_data(units) == [longUnits |-> IF units = "ALL" THEN "ALL" ELSE AbsStr(units)]

short_units_data(units) == [shortUnits |-> IF units = "ALL" THEN "ALL" ELSE AbsStr(units)]

CloseFill(i, side) ==
    [id |-> CloseTxnId[side], type |-> "ORDER_FILL", instrument |-> i,
     units |-> IF side = "long" THEN "-100" ELSE "100"]

CloseResponses(i, side) ==
    IF side = "long"
    THEN {[longOrderFillTransaction |-> CloseFill(i, side), lastTransactionID |-> "tL"],
          [lastTransactionID |-> "tL"]}
    ELSE {[shortOrderFillTransaction |-> CloseFill(i, side), lastTransactionID |-> "tS"],
          [lastTransactionID |-> "tS"]}

\* The broker's answers to a close of one side; state is whether the side
\* is open afterwards.
PositionCloseReplies(i, side, open) ==
    IF open
    THEN {[code |-> 0, msg |-> {}, response |-> r, state |-> FALSE] :
             r \in CloseResponses(i, side)}
         \cup TransientReplies(FALSE) \cup TransientReplies(TRUE)
    ELSE ErrorReplies(HTTP_BAD_REQUEST, {CLOSEOUT_FAILED, REDUCE_ONLY}, FALSE)
         \cup TransientReplies(FALSE)

no_position_wrong_code(code, msg) ==
    code = HTTP_NOT_FOUND /\ CLOSEOUT_FAILED \in msg /\ REDUCE_ONLY \in msg

no_position(code, msg) ==
    code = HTTP_BAD_REQUEST /\ CLOSEOUT_FAILED \in msg /\ REDUCE_ONLY \in msg

FirstTruthy(resp, fillKey, createKey) ==
    IF Truthy(Get(resp, fillKey, PyNone)) THEN resp[fillKey]
    ELSE IF Truthy(Get(resp, createKey, PyNone)) THEN resp[createKey]
    ELSE resp

long_failure_raises_unless_benign(rl) ==
    rl.code # 0 /\ ~no_position(rl.code, rl.msg)

\* The handler of a failed long-side close: it logs, and passes.
long_failure_raises(rl) ==
    IF rl.code # 0 /\ ~no_position(rl.code, rl.msg) THEN FALSE ELSE FALSE

long_closed(rl) ==
    IF rl.code = 0
    THEN FirstTruthy(rl.response, "longOrderFillTransaction", "longOrderCreateTransaction")
    ELSE PyNone

short_requested(units) == units = "ALL" \/ (units # Absent /\ FloatOf(units) > 0)

short_closed_forgets_long(closed, rs) ==
    IF rs.code = 0
    THEN FirstTruthy(rs.response, "shortOrderFillTransaction", "shortOrderCreateTransaction")
    ELSE PyNone

short_closed(closed, rs) ==
    IF rs.code = 0
    THEN FirstTruthy(rs.response, "shortOrderFillTransaction", "shortOrderCreateTransaction")
    ELSE closed

short_failure_raises(closed, rs) ==
    rs.code # 0 /\ closed = PyNone /\ ~no_position(rs.code, rs.msg)

close_result(instrument, closed) ==
    IF closed = PyNone
    THEN Returned(OandaTradeOrder(
             [id |-> NO_POSITION_ID, state |-> "FILLED", instrument |-> instrument,
              units |-> "0"], "MARKET"))
    ELSE Returned(OandaTradeOrder(closed, "MARKET"))

close_position(t, call, n) ==
    /\ UNCHANGED <<orderState, orderCid>>
    /\ \E rl \in PositionCloseReplies(call.arg, "long", pos[call.arg].long) :
        LET c1 == [call EXCEPT !.sent = <<long_units_data(call.units)>>,
                               !.long = Answer(rl), !.short = Unsent]
        IN  IF long_failure_raises(rl)
            THEN /\ pos' = [pos EXCEPT ![call.arg].long = rl.state]
                 /\ Conclude(t, c1, n, Raised("V20Error", rl.code))
            ELSE IF short_requested(call.units)
            THEN \E rs \in PositionCloseReplies(call.arg, "short", pos[call.arg].short) :
                    LET c2 == [c1 EXCEPT !.sent = Append(@, short_units_data(call.units)),
                                         !.short = Answer(rs)]
                    IN  /\ pos' = [pos EXCEPT ![call.arg] =
                                       [long |-> rl.state, short |-> rs.state]]
                        /\ IF short_failure_raises(long_closed(rl), rs)
                           THEN Conclude(t, c2, n, Raised("V20Error", 0))
                           ELSE Conclude(t, c2, n,
                                    close_result(call.arg, short_closed(long_closed(rl), rs)))
            ELSE /\ pos' = [pos EXCEPT ![call.arg].long = rl.state]
                 /\ Conclude(t, c1, n, close_result(call.arg, long_closed(rl)))

CallClosePosition(t) ==
    /\ Begin(t)
    /\ ncalls' = ncalls + 1
    /\ \E i \in Instruments, u \in {"ALL", "-100", "100"} :
          close_position(t, [NewCall("close_position", i) EXCEPT !.units = u], 1)

RetryClosePosition(t) ==
    /\ Resume(t, "close_position")
    /\ UNCHANGED ncalls
    /\ close_position(t, task[t], task[t].attempt + 1)

(***************************************************************************)
(* The market fills a pending order at the broker.                         *)
(***************************************************************************)
BrokerFill(o) ==
    /\ orderState[o] = "PENDING"
    /\ orderState' = [orderState EXCEPT ![o] = "FILLED"]
    /\ UNCHANGED <<task, orderCid, pos, lastReported, ncalls, execution, risk,
                   trading, built, candles>>

(***************************************************************************)
(* execute_trades_task of the Prefect flow: it reports the simulated       *)
(* execution of the generated signals and calls nothing of the engine.     *)
(***************************************************************************)
execute_trades_task ==
    /\ execution = Absent
    /\ execution' = "Trades executed (simulated)"
    /\ UNCHANGED <<task, orderState, orderCid, pos, lastReported, ncalls, risk,
                   trading, built, candles>>

Next ==
    \/ \E t \in Callers :
        \/ CallCancelOrder(t)
        \/ RetryCancelOrder(t)
        \/ CallGetAccountSummary(t)
        \/ RetryGetAccountSummary(t)
        \/ CallGetOpenPositions(t)
        \/ RetryGetOpenPositions(t)
        \/ CallGetOrderStatus(t)
        \/ RetryGetOrderStatus(t)
        \/ CallPlaceOrder(t)
        \/ RetryPlaceOrder(t)
        \/ CallClosePosition(t)
        \/ RetryClosePosition(t)
    \/ \E o \in OrderIds : BrokerFill(o)
    \/ execute_trades_task

Spec == Init /\ [][Next]_vars

(***************************************************************************)
(* The risk manager's methods (execution/risk_manager.py).                 *)
(***************************************************************************)
\* The settings objects a RiskManager is built with: TradingParameters with
\* its defaults or with the smallest multipliers it validates, and the same
\* in a subclass that adds the field ATR_PERIOD_FOR_SLTP.
ParameterSets ==
    LET plain == {TradingParameters,
                  [TradingParameters EXCEPT !.ATR_MULTIPLIER_FOR_SL = 1,
                                            !.ATR_MULTIPLIER_FOR_TP = 1]}
    IN  plain \cup {q @@ [ATR_PERIOD_FOR_SLTP |-> 14] : q \in plain}

SignalActionType == {"BUY", "SELL", "HOLD", "CLOSE_LONG", "CLOSE_SHORT"}

Pairs == {"EUR_USD", "usd_jpy"}

Signal(action, pair, entry_price) ==
    [action |-> action, pair |-> pair, entry_price |-> entry_price]

\* The account at the time of a call: the portfolio's value and the open
\* positions, on the signal's pair and in all.
AccountStates ==
    [current_portfolio_value : {100000, 88000},
     open_for_pair : {0, 2},
     open_total : {2, 5}]

(***************************************************************************)
(* pre_trade_checks.  The drawdown, position-count and correlation checks  *)
(* are comments: the method takes the signal and the proposed size only,   *)
(* and returns a bool.                                                     *)
(***************************************************************************)
pre_trade_checks_zero_allowed(signal, proposed_size_lots) ==
    IF FLt(proposed_size_lots, F(0))
    THEN [exc |-> "", allowed |-> FALSE]
    ELSE [exc |-> "", allowed |-> TRUE]

pre_trade_checks(signal, proposed_size_lots) ==
    IF FLe(proposed_size_lots, F(0))
    THEN [exc |-> "", allowed |-> FALSE]
    ELSE [exc |-> "", allowed |-> TRUE]

PreTradeCalls ==
    {[NoRiskCall EXCEPT !.op = "pre_trade_checks", !.params = q,
                        !.account_balance = 100000, !.signal = Signal(a, pr, F(1000)),
                        !.proposed_size_lots = sz, !.account = acc] :
        q \in {TradingParameters}, a \in {"BUY", "SELL"}, pr \in Pairs,
        sz \in {F(-1), F(0), F(1), F(20000)}, acc \in AccountStates}

PreTradeChecks ==
    /\ risk.op = "pre_trade_checks" /\ risk.result = PyNone
    /\ risk' = [risk EXCEPT !.result = pre_trade_checks(risk.signal, risk.proposed_size_lots)]
    /\ UNCHANGED <<task, orderState, orderCid, pos, lastReported, ncalls, execution,
                   trading, built, candles>>

(***************************************************************************)
(* calculate_position_size.  The result is a size in lots rounded to four  *)
(* decimals, None, or the ZeroDivisionError of the float division.         *)
(***************************************************************************)
\* "JPY" in pair.upper()
HasJPY(pair) == pair \in {"usd_jpy", "USD_JPY"}

pip_size_without_jpy(pair) == Ulp

\* 0.0001, or 0.01 for a JPY pair, in the unit of prices.
pip_size(pair) == IF HasJPY(pair) THEN 100 * Ulp ELSE Ulp

FAbs(a) == IF a.nan THEN NaN ELSE F(IF a.v < 0 THEN 0 - a.v ELSE a.v)

\* round(n / d, 0) for n >= 0 and d > 0, halves to the even neighbour.
RoundHalfEven(n, d) ==
    LET q == n \div d
        r == n % d
    IN  IF 2 * r < d THEN q
        ELSE IF 2 * r > d THEN q + 1
        ELSE IF q % 2 = 0 THEN q ELSE q + 1

Sizing(lots) == [exc |-> "", lots |-> lots]

\* Lines 86-119: the size for a price risk risk_per_unit_currency.
lots_for_risk(params, account_balance, pair, risk_per_unit_currency, pip_value_per_lot) ==
    LET risk_per_trade_abs == account_balance * params.ACCOUNT_RISK_PER_TRADE_PCT
        num == risk_per_trade_abs * 10 * pip_size(pair)
        den == risk_per_unit_currency.v * pip_value_per_lot.v
    IN  IF FEq(risk_per_unit_currency, F(0))
        THEN Sizing(PyNone)
        ELSE IF risk_per_unit_currency.nan \/ pip_value_per_lot.nan
        THEN Sizing(NaN)
        ELSE IF den = 0
        THEN [exc |-> "ZeroDivisionError", lots |-> PyNone]
        ELSE IF (den > 0 /\ num <= 0) \/ (den < 0 /\ num >= 0)
        THEN Sizing(PyNone)
        ELSE IF den > 0
        THEN Sizing(F(RoundHalfEven(num, den)))
        ELSE Sizing(F(RoundHalfEven(0 - num, 0 - den)))

calculate_position_size_unguarded(params, account_balance, pair, entry_price, stop_loss_price, pip_value_per_lot) ==
    LET risk_per_unit_currency ==
            IF entry_price.nan \/ stop_loss_price.nan THEN NaN
            ELSE FAbs(F(entry_price.v - stop_loss_price.v))
        den == risk_per_unit_currency.v * pip_value_per_lot.v
    IN  IF ~risk_per_unit_currency.nan /\ ~pip_value_per_lot.nan /\ den = 0
        THEN [exc |-> "ZeroDivisionError", lots |-> PyNone]
        ELSE lots_for_risk(params, account_balance, pair, risk_per_unit_currency,
                           pip_value_per_lot)

calculate_position_size(params, account_balance, pair, entry_price, stop_loss_price, pip_value_per_lot) ==
    LET risk_per_unit_currency ==
            IF entry_price.nan \/ stop_loss_price.nan THEN NaN
            ELSE FAbs(F(entry_price.v - stop_loss_price.v))
    IN  IF FEq(entry_price, stop_loss_price)
        THEN Sizing(PyNone)
        ELSE IF FEq(risk_per_unit_currency, F(0))
        THEN Sizing(PyNone)
        ELSE lots_for_risk(params, account_balance, pair, risk_per_unit_currency,
                           pip_value_per_lot)

PositionSizeCalls ==
    {[NoRiskCall EXCEPT !.op = "calculate_position_size", !.params = TradingParameters,
                        !.account_balance = bal, !.pair = pr, !.entry_price = en,
                        !.stop_loss_price = st, !.pip_value_per_lot = pv] :
        bal \in {1000, 1, 0}, pr \in Pairs, en \in {F(1000), NaN},
        st \in {F(1000), F(996), F(1200), NaN}, pv \in {F(10), F(0), F(-10)}}
    \cup
    \* A balance of 100000, entry 1.1050 and stop 1.1000 on EUR_USD.
    {[NoRiskCall EXCEPT !.op = "calculate_position_size", !.params = TradingParameters,
                        !.account_balance = 100000, !.pair = "EUR_USD",
                        !.entry_price = F(11050 * Ulp), !.stop_loss_price = F(11000 * Ulp),
                        !.pip_value_per_lot = F(10)]}

CalculatePositionSize ==
    /\ risk.op = "calculate_position_size" /\ risk.result = PyNone
    /\ risk' = [risk EXCEPT !.result =
                    calculate_position_size(risk.params, risk.account_balance, risk.pair,
                                            risk.entry_price, risk.stop_loss_price,
                                            risk.pip_value_per_lot)]
    /\ UNCHANGED <<task, orderState, orderCid, pos, lastReported, ncalls, execution,
                   trading, built, candles>>

(***************************************************************************)
(* calculate_sl_tp.  The history is known by its length and by the last    *)
(* value talib.ATR computes from it.                                       *)
(***************************************************************************)
_calculate_atr(historical_df, period) ==
    IF historical_df.len < period + 1 THEN PyNone
    ELSE IF historical_df.atr.nan THEN PyNone
    ELSE historical_df.atr

Levels(sl, tp) == [exc |-> "", sl |-> sl, tp |-> tp]

\* atr * multiplier, the multiplier counted in halves.
FMulHalves(a, m) == F((a.v * m) \div 2)

\* Lines 139-159: the levels before they are validated.
raw_sl_tp(params, signal, atr) ==
    LET entry == signal.entry_price
        use_atr == ~IsNone(atr) /\ FGt(atr, F(0))
        sl_distance == IF use_atr THEN FMulHalves(atr, params.ATR_MULTIPLIER_FOR_SL)
                       ELSE F(params.DEFAULT_SL_PIPS * pip_size(signal.pair))
        tp_distance == IF use_atr THEN FMulHalves(atr, params.ATR_MULTIPLIER_FOR_TP)
                       ELSE F(params.DEFAULT_TP_PIPS * pip_size(signal.pair))
    IN  IF signal.action = "BUY"
        THEN Levels(FSub(entry, sl_distance), FAdd(entry, tp_distance))
        ELSE IF signal.action = "SELL"
        THEN Levels(FAdd(entry, sl_distance), FSub(entry, tp_distance))
        ELSE Levels(PyNone, PyNone)

\* Lines 162-172: levels on the wrong side of the entry price are dropped.
validated(signal, levels) ==
    LET entry == signal.entry_price
        sl == levels.sl
        tp == levels.tp
    IN  IF ~IsNone(sl) /\ ~IsNone(tp)
        THEN IF signal.action = "BUY" /\ (FGe(sl, entry) \/ FLe(tp, entry))
             THEN Levels(PyNone, PyNone)
             ELSE IF signal.action = "SELL" /\ (FLe(sl, entry) \/ FGe(tp, entry))
             THEN Levels(PyNone, PyNone)
             ELSE levels
        ELSE levels

calculate_sl_tp(params, signal, historical_df) ==
    IF IsNone(signal.entry_price)
    THEN Levels(PyNone, PyNone)
    ELSE IF "ATR_PERIOD_FOR_SLTP" \notin DOMAIN params
    THEN [exc |-> "AttributeError", sl |-> PyNone, tp |-> PyNone]
    ELSE validated(signal,
                   raw_sl_tp(params, signal,
                             _calculate_atr(historical_df, params.ATR_PERIOD_FOR_SLTP)))

SlTpCalls ==
    {[NoRiskCall EXCEPT !.op = "calculate_sl_tp", !.params = q, !.account_balance = 100000,
                        !.signal = Signal(a, pr, en), !.historical_df = df] :
        q \in ParameterSets, a \in {"BUY", "SELL", "HOLD"}, pr \in Pairs,
        en \in {PyNone, NaN, F(1000)},
        df \in [len : {10, 20}, atr : {NaN, F(0), F(2), F(8)}]}

CalculateSlTp ==
    /\ risk.op = "calculate_sl_tp" /\ risk.result = PyNone
    /\ risk' = [risk EXCEPT !.result =
                    calculate_sl_tp(risk.params, risk.signal, risk.historical_df)]
    /\ UNCHANGED <<task, orderState, orderCid, pos, lastReported, ncalls, execution,
                   trading, built, candles>>

(***************************************************************************)
(* The risk manager's methods are pure: a behaviour is one call, drawn     *)
(* with its arguments by the initial predicate and applied by the action   *)
(* of its method.                                                          *)
(***************************************************************************)
RiskInit ==
    /\ task = [t \in Tasks |-> IdleTask]
    /\ orderState = [o \in KnownIds |-> "NONE"]
    /\ orderCid = [o \in OrderIds |-> 0]
    /\ pos = [i \in Instruments |-> [long |-> FALSE, short |-> FALSE]]
    /\ lastReported = [i \in AllIds |-> "none"]
    /\ ncalls = 0
    /\ execution = Absent
    /\ risk \in PreTradeCalls \cup PositionSizeCalls \cup SlTpCalls
    /\ trading = DefaultSettings
    /\ built = NothingBuilt
    /\ candles = IdleCandles

RiskNext ==
    \/ PreTradeChecks
    \/ CalculatePositionSize
    \/ CalculateSlTp

RiskSpec == RiskInit /\ [][RiskNext]_vars

(***************************************************************************)
(* The settings object (config/trading_params.py).  TradingParameters is a *)
(* pydantic model: the bounds of its Fields are checked when an object is  *)
(* built; the class sets no validate_assignment and is not frozen, so an   *)
(* assignment to a field of an existing object stores the value as it is.  *)
(***************************************************************************)
MaxAssignments == 1

FieldBounds ==
    [MAX_POSITIONS_PER_CURRENCY |-> [ge |-> 1],
     MAX_CONCURRENT_POSITIONS |-> [ge |-> 1],
     MAX_DRAWDOWN_PCT |-> [ge |-> 1, le |-> 50],
     ACCOUNT_RISK_PER_TRADE_PCT |-> [ge |-> 1, le |-> 50],
     DEFAULT_SL_PIPS |-> [ge |-> 5],
     DEFAULT_TP_PIPS |-> [ge |-> 10],
     SLIPPAGE_TOLERANCE_BPS |-> [ge |-> 0, le |-> 50],
     ATR_PERIOD_FOR_SIZING |-> [ge |-> 5],
     ATR_MULTIPLIER_FOR_SL |-> [ge |-> 1],
     ATR_MULTIPLIER_FOR_TP |-> [ge |-> 1],
     NEWS_SENTIMENT_THRESHOLD |-> [ge |-> -10, le |-> 10],
     CORRELATION_THRESHOLD |-> [ge |-> 0, le |-> 10],
     MIN_TRADE_DURATION_MINUTES |-> [ge |-> 0]]

\* pydantic's check of one value against the ge and le of its Field.
field_valid(f, v) ==
    /\ v >= FieldBounds[f].ge
    /\ "le" \in DOMAIN FieldBounds[f] => v <= FieldBounds[f].le

\* The values a caller passes or assigns: each bound and its neighbour
\* outside the range; a drawdown of 1.5 is 150 percent.
FieldValues(f) ==
    {FieldBounds[f].ge - 1, FieldBounds[f].ge}
    \cup (IF "le" \in DOMAIN FieldBounds[f] THEN {FieldBounds[f].le + 1} ELSE {})
    \cup (IF f = "MAX_DRAWDOWN_PCT" THEN {150} ELSE {})

\* TradingParameters(**kwargs): ValidationError (a ValueError) when a value
\* is out of its Field's range, else the object with the defaults for the
\* fields not passed.
NewTradingParameters(kwargs) ==
    /\ trading' =
          IF \A f \in DOMAIN kwargs : field_valid(f, kwargs[f])
          THEN [params |-> kwargs @@ TradingParameters, op |-> "construct",
                kwargs |-> kwargs, exc |-> "", assignments |-> 0]
          ELSE [trading EXCEPT !.op = "construct", !.kwargs = kwargs,
                               !.exc = "ValidationError"]
    /\ UNCHANGED <<task, orderState, orderCid, pos, lastReported, ncalls, execution,
                   risk, built, candles>>

\* params.f = v on the object in use.
SetField(f, v) ==
    /\ trading.assignments < MaxAssignments
    /\ trading' = [trading EXCEPT !.params[f] = v, !.op = "assign",
                                  !.kwargs = f :> v, !.exc = "",
                                  !.assignments = @ + 1]
    /\ UNCHANGED <<task, orderState, orderCid, pos, lastReported, ncalls, execution,
                   risk, built, candles>>

SettingsInit ==
    /\ task = [t \in Tasks |-> IdleTask]
    /\ orderState = [o \in KnownIds |-> "NONE"]
    /\ orderCid = [o \in OrderIds |-> 0]
    /\ pos = [i \in Instruments |-> [long |-> FALSE, short |-> FALSE]]
    /\ lastReported = [i \in AllIds |-> "none"]
    /\ ncalls = 0
    /\ execution = Absent
    /\ risk = NoRiskCall
    /\ trading = DefaultSettings
    /\ built = NothingBuilt
    /\ candles = IdleCandles

SettingsNext ==
    \/ NewTradingParameters(NoKwargs)
    \/ \E f \in DOMAIN FieldBounds : \E v \in FieldValues(f) :
          NewTradingParameters(f :> v)
    \/ \E f \in DOMAIN FieldBounds : \E v \in FieldValues(f) : SetField(f, v)

SettingsSpec == SettingsInit /\ [][SettingsNext]_vars

(***************************************************************************)
(* The adapters' Position objects.  OANDA reports the units of a           *)
(* position's long side as a decimal string that is zero or positive and   *)
(* those of its short side as one that is zero or negative; MetaTrader 5   *)
(* reports a type and an unsigned volume.                                  *)
(***************************************************************************)
OandaPosition(oanda_position_data) ==
    [instrument |-> oanda_position_data.instrument,
     long_units |-> FloatOf(oanda_position_data.long.units),
     short_units |-> FloatOf(oanda_position_data.short.units),
     unrealized_pnl |-> FloatOf(Get(oanda_position_data, "unrealizedPL", "0"))]

MT5Position(mt5_pos_info) ==
    [instrument |-> mt5_pos_info.symbol,
     long_units |-> IF mt5_pos_info.type = "ORDER_TYPE_BUY" THEN mt5_pos_info.volume ELSE 0,
     short_units |-> IF mt5_pos_info.type = "ORDER_TYPE_SELL" THEN mt5_pos_info.volume ELSE 0,
     unrealized_pnl |-> mt5_pos_info.profit]

\* The positions of an OANDA account, as the v20 API reports them.
OandaPositionData ==
    LET sides == [instrument : {"EUR_USD", "USD_JPY"},
                  long : [units : {"0", "100", "250"}],
                  short : [units : {"0", "-100", "-250"}]]
    IN  sides \cup {d @@ [unrealizedPL |-> pl] : d \in sides, pl \in {"-100", "100"}}

\* The positions of a MetaTrader 5 account.
MT5PositionInfo ==
    [symbol : {"EURUSD", "USDJPY"},
     type : {"ORDER_TYPE_BUY", "ORDER_TYPE_SELL", "ORDER_TYPE_BUY_LIMIT"},
     volume : {0, 10, 25},
     profit : {-5, 5}]

NewOandaPosition ==
    /\ built.cls = "OandaPosition" /\ built.result = PyNone
    /\ built' = [built EXCEPT !.result = OandaPosition(built.data)]
    /\ UNCHANGED <<task, orderState, orderCid, pos, lastReported, ncalls, execution,
                   risk, trading, candles>>

NewMT5Position ==
    /\ built.cls = "MT5Position" /\ built.result = PyNone
    /\ built' = [built EXCEPT !.result = MT5Position(built.data)]
    /\ UNCHANGED <<task, orderState, orderCid, pos, lastReported, ncalls, execution,
                   risk, trading, candles>>

\* A behaviour is one construction, drawn with the broker's data by the
\* initial predicate.
PositionInit ==
    /\ task = [t \in Tasks |-> IdleTask]
    /\ orderState = [o \in KnownIds |-> "NONE"]
    /\ orderCid = [o \in OrderIds |-> 0]
    /\ pos = [i \in Instruments |-> [long |-> FALSE, short |-> FALSE]]
    /\ lastReported = [i \in AllIds |-> "none"]
    /\ ncalls = 0
    /\ execution = Absent
    /\ risk = NoRiskCall
    /\ trading = DefaultSettings
    /\ built \in
          {[NothingBuilt EXCEPT !.cls = "OandaPosition", !.data = d] : d \in OandaPositionData}
          \cup {[NothingBuilt EXCEPT !.cls = "MT5Position", !.data = d] : d \in MT5PositionInfo}
    /\ candles = IdleCandles

PositionNext ==
    \/ NewOandaPosition
    \/ NewMT5Position

PositionSpec == PositionInit /\ [][PositionNext]_vars

(***************************************************************************)
(* The historical-candles query.  OandaBrokerClient.get_historical_data    *)
(* awaits OandaClient.get_historical_candles, which is decorated with      *)
(* @retry(stop=stop_after_attempt(3), wait=wait_exponential(...)) and      *)
(* whose body awaits make_request_with_retry, an AsyncRetrying loop with   *)
(* stop_after_attempt(max_attempts) and reraise=True.  Neither names the   *)
(* exceptions it retries, so both retry on every exception.                *)
(***************************************************************************)
max_attempts == 3
candles_attempts == 3

\* What one client.request and raise_for_status can end with, and whether
\* the body of a 200 answer parses into OandaCandle objects.
HttpReplies ==
    {[exc |-> "", status |-> 200, parses |-> TRUE],
     [exc |-> "", status |-> 200, parses |-> FALSE],
     [exc |-> "HTTPStatusError", status |-> 503, parses |-> FALSE],
     [exc |-> "HTTPStatusError", status |-> 404, parses |-> FALSE],
     [exc |-> "ConnectError", status |-> 0, parses |-> FALSE]}

\* The decorator of get_historical_candles after its attempt raised error.
get_historical_candles(call, error) ==
    IF call.outer >= candles_attempts
    THEN [call EXCEPT !.pc = "done", !.error = error,
                      !.result = [exc |-> "RetryError", cause |-> error]]
    ELSE [call EXCEPT !.pc = "sleep_outer", !.error = error]

\* make_request_with_retry after attempt number n ended with reply.
make_request_with_retry(call, n, reply) ==
    LET sent == [call EXCEPT !.inner = n, !.requests = @ + 1]
        error == [exc |-> reply.exc, status |-> reply.status]
    IN  IF reply.exc # ""
        THEN IF n >= max_attempts
             THEN get_historical_candles(sent, error)
             ELSE [sent EXCEPT !.pc = "sleep_inner", !.error = error]
        ELSE IF reply.parses
        THEN [sent EXCEPT !.pc = "done", !.error = PyNone,
                          !.result = [exc |-> "", cause |-> PyNone]]
        ELSE get_historical_candles(sent, [exc |-> "ValidationError", status |-> 200])

CallGetHistoricalData ==
    /\ candles.pc = "idle"
    /\ \E i \in {"EUR_USD", "USD_JPY"}, g \in {"H1", "M5"}, reply \in HttpReplies :
          candles' = make_request_with_retry(
                         [IdleCandles EXCEPT !.instrument = i, !.granularity = g,
                                             !.outer = 1], 1, reply)
    /\ UNCHANGED <<task, orderState, orderCid, pos, lastReported, ncalls, execution,
                   risk, trading, built>>

\* The request loop wakes from its back-off and sends the request again.
RetryRequest ==
    /\ candles.pc = "sleep_inner"
    /\ \E reply \in HttpReplies :
          candles' = make_request_with_retry(candles, candles.inner + 1, reply)
    /\ UNCHANGED <<task, orderState, orderCid, pos, lastReported, ncalls, execution,
                   risk, trading, built>>

\* get_historical_candles wakes from its back-off and runs its body again:
\* a new client, and a new request loop.
RetryGetHistoricalCandles ==
    /\ candles.pc = "sleep_outer"
    /\ \E reply \in HttpReplies :
          candles' = make_request_with_retry(
                         [candles EXCEPT !.outer = @ + 1, !.inner = 0], 1, reply)
    /\ UNCHANGED <<task, orderState, orderCid, pos, lastReported, ncalls, execution,
                   risk, trading, built>>

CandlesInit ==
    /\ task = [t \in Tasks |-> IdleTask]
    /\ orderState = [o \in KnownIds |-> "NONE"]
    /\ orderCid = [o \in OrderIds |-> 0]
    /\ pos = [i \in Instruments |-> [long |-> FALSE, short |-> FALSE]]
    /\ lastReported = [i \in AllIds |-> "none"]
    /\ ncalls = 0
    /\ execution = Absent
    /\ risk = NoRiskCall
    /\ trading = DefaultSettings
    /\ built = NothingBuilt
    /\ candles = IdleCandles

CandlesNext ==
    \/ CallGetHistoricalData
    \/ RetryRequest
    \/ RetryGetHistoricalCandles

CandlesSpec == CandlesInit /\ [][CandlesNext]_vars

(***************************************************************************)
(* The order place_order builds from a successful OrderCreate response:    *)
(* OandaTradeOrder(r.response, order_type_override=OrderType[...]).  The   *)
(* response holds the transaction that created the order, with or without  *)
(* the order's state, and the fill or cancel transaction if there was one. *)
(***************************************************************************)
OrderCreateResponses ==
    LET reqs == [type : OrderType, instrument : {"EUR_USD", "USD_JPY"},
                 units : {"100", "-100"}]
        creates(req) == {CreateTransaction("o1", req)}
                        \cup {CreateTransaction("o1", req) @@ [state |-> st] :
                                 st \in DOMAIN OANDA_ORDER_STATE_MAP}
        followers(req) == {<<>>,
                           [orderFillTransaction |-> FillTransaction("o1", req)],
                           [orderCancelTransaction |-> CancelTransaction("o1")],
                           [orderFillTransaction |-> FillTransaction("o1", req),
                            orderCancelTransaction |-> CancelTransaction("o1")]}
    IN  UNION {{[NothingBuilt EXCEPT
                    !.cls = "OandaTradeOrder",
                    !.data = [orderCreateTransaction |-> c, lastTransactionID |-> "t1"] @@ f,
                    !.order_type_override = req.type] :
                  c \in creates(req), f \in followers(req)} : req \in reqs}

NewOandaTradeOrder ==
    /\ built.cls = "OandaTradeOrder" /\ built.result = PyNone
    /\ built' = [built EXCEPT !.result =
                     OandaTradeOrder(built.data, built.order_type_override)]
    /\ UNCHANGED <<task, orderState, orderCid, pos, lastReported, ncalls, execution,
                   risk, trading, candles>>

OrderInit ==
    /\ task = [t \in Tasks |-> IdleTask]
    /\ orderState = [o \in KnownIds |-> "NONE"]
    /\ orderCid = [o \in OrderIds |-> 0]
    /\ pos = [i \in Instruments |-> [long |-> FALSE, short |-> FALSE]]
    /\ lastReported = [i \in AllIds |-> "none"]
    /\ ncalls = 0
    /\ execution = Absent
    /\ risk = NoRiskCall
    /\ trading = DefaultSettings
    /\ built \in OrderCreateResponses
    /\ candles = IdleCandles

OrderSpec == OrderInit /\ [][NewOandaTradeOrder]_vars

(***************************************************************************)
(* The adapter under two caller tasks.  The methods take no lock and keep  *)
(* no per-instrument queue: whenever a task's call is in its back-off      *)
(* sleep the event loop runs whatever the other task calls.                *)
(***************************************************************************)
MutatingNext ==
    \E t \in Tasks :
        \/ CallCancelOrder(t)
        \/ RetryCancelOrder(t)
        \/ CallPlaceOrder(t)
        \/ RetryPlaceOrder(t)
        \/ CallClosePosition(t)
        \/ RetryClosePosition(t)

ConcurrentSpec == Init /\ [][MutatingNext]_vars

(***************************************************************************)
(* Properties.                                                             *)
(***************************************************************************)
Ran(t, op) == task[t].op = op /\ task[t].attempt >= 1

ReturnedOrder(t) == task[t].pc = "done" /\ task[t].result.kind = "order"

\* A step that starts a further attempt of the call task t is in.
Retries(t) == task[t].attempt >= 1 /\ task'[t].attempt = task[t].attempt + 1

\* The broker's "nothing to close on that side" rejection.
NothingToClose(a) ==
    a.code = 400 /\ {"POSITION_CLOSEOUT_FAILED", "UNITS_REDUCE_ONLY"} \subseteq a.msg

\* The broker's "order not found / already cancelled or filled" rejection.
OrderGone(a) ==
    a.code = 404 /\ a.msg \cap {"Order not found", "already been cancelled"} # {}

\* C1: whenever the broker answered an attempt of cancel_order with "order
\* not found / already cancelled or filled", the call has returned an order
\* with the requested id and status CANCELLED (it neither raises nor waits
\* to retry).
C1_CancelGoneIsCancelled ==
    \A t \in Tasks :
        (Ran(t, "cancel_order") /\ OrderGone(task[t].reply))
        => /\ ReturnedOrder(t)
           /\ task[t].result.order.order_id = task[t].arg
           /\ task[t].result.order.status = "CANCELLED"

\* C2: an attempt of close_position(instrument, "ALL") raises if and only if
\* neither side's close produced a result and at least one of the two
\* failures was not the benign nothing-to-close rejection.
C2_CloseAllFailsIff ==
    \A t \in Tasks :
        (Ran(t, "close_position") /\ task[t].units = "ALL")
        => ((task[t].out.kind = "raise")
            <=> /\ task[t].long.code # 0
                /\ task[t].short.code # 0
                /\ ~NothingToClose(task[t].long) \/ ~NothingToClose(task[t].short))

\* C3: every attempt of close_position(instrument, "ALL") has sent the
\* long-side close request and then the short-side close request, whatever
\* the broker answered to the long-side request.
C3_BothSidesAttempted ==
    \A t \in Tasks :
        (Ran(t, "close_position") /\ task[t].units = "ALL")
        => /\ task[t].sent = <<[longUnits |-> "ALL"], [shortUnits |-> "ALL"]>>
           /\ task[t].long # Unsent
           /\ task[t].short # Unsent

C3_Witness ==
    \E t \in Tasks :
        /\ Ran(t, "close_position") /\ task[t].units = "ALL"
        /\ task[t].long.code = 503
        /\ task[t].short.code = 0
        /\ Len(task[t].sent) = 2

\* C4: when the long-side close of close_position(instrument, "ALL")
\* succeeded and the broker rejected the short-side close because nothing is
\* open there, the call has returned an order, and that order is the one
\* built from the long-side response (never the synthetic already-flat order
\* and never a short-side one).
C4_OnlyLongReturnsLongResult ==
    \A t \in Tasks :
        (/\ Ran(t, "close_position") /\ task[t].units = "ALL"
         /\ task[t].long.code = 0 /\ NothingToClose(task[t].short))
        => /\ ReturnedOrder(t)
           /\ task[t].result.order.order_id \in {"tL", "None"}

C4_Witness ==
    \E t \in Tasks :
        /\ Ran(t, "close_position") /\ task[t].units = "ALL"
        /\ task[t].long.code = 0 /\ NothingToClose(task[t].short)
        /\ ReturnedOrder(t)
        /\ task[t].result.order.order_id = "tL"
        /\ task[t].result.order.instrument = task[t].arg

\* C5: when every close request of an attempt of close_position was rejected
\* with the benign nothing-to-close error, the call has returned the
\* synthetic order: the instrument asked for, zero units, status FILLED.
C5_AlreadyFlatIsFilled ==
    \A t \in Tasks :
        (/\ Ran(t, "close_position")
         /\ NothingToClose(task[t].long)
         /\ task[t].short = Unsent \/ NothingToClose(task[t].short))
        => /\ ReturnedOrder(t)
           /\ task[t].result.order.order_id = "N/A_NO_POSITION"
           /\ task[t].result.order.instrument = task[t].arg
           /\ task[t].result.order.units = 0
           /\ task[t].result.order.status = "FILLED"

C5_Witness ==
    \E t \in Tasks :
        /\ Ran(t, "close_position") /\ task[t].units = "ALL"
        /\ NothingToClose(task[t].long) /\ NothingToClose(task[t].short)
        /\ ReturnedOrder(t)
        /\ task[t].result.order.status = "FILLED"
        /\ task[t].result.order.units = 0

\* C6: the broker holds at most one order per client correlation id, that
\* is, per call of place_order.
C6_OneOrderPerCall ==
    \A c \in 1..(MaxCalls + 1) :
        Cardinality({o \in OrderIds : orderCid[o] = c}) <= 1

\* C7: no call runs more than MaxAttempts attempts, and a further attempt of
\* a call starts only after its previous attempt raised.
C7_AtMostThreeAttempts ==
    [][\A t \in Tasks :
          /\ task'[t].attempt <= 3
          /\ Retries(t) => task[t].out.kind = "raise"]_vars

C7_Witness ==
    \E t \in Tasks :
        /\ task[t].pc = "done" /\ task[t].attempt = 3
        /\ task[t].result.exc = "RetryError"

\* C8: a further attempt of place_order starts only after an attempt that
\* failed with a transient broker error (rate limiting, 5xx), never after a
\* request the broker rejected as invalid.
C8_RetryOnlyTransient ==
    [][\A t \in Tasks :
          (Retries(t) /\ task[t].op = "place_order")
          => (task[t].out.exc = "V20Error" /\ task[t].out.code \in {429, 503})]_vars

InstrumentOf(call) ==
    IF call.op \in {"place_order", "close_position"} THEN call.arg ELSE "EUR_USD"

Mutating(call) == call.op \in {"place_order", "cancel_order", "close_position"}

\* C13: no mutating call starts on an instrument while another task's
\* mutating call on the same instrument is between two of its attempts.
C13_SerializedPerInstrument ==
    [][\A t, u \in Tasks :
          (/\ t # u
           /\ task[t].pc = "sleep" /\ Mutating(task[t]) /\ task'[t] = task[t]
           /\ ncalls' = ncalls + 1 /\ Mutating(task'[u]))
          => InstrumentOf(task'[u]) # InstrumentOf(task[t])]_vars

\* The canonical counterpart of a broker order state.
CanonicalOf(w) == IF w = "TRIGGERED" THEN "FILLED" ELSE w

RiskDone(op) == risk.op = op /\ risk.result # PyNone

NoLevels(r) == r.exc = "" /\ IsNone(r.sl) /\ IsNone(r.tp)

\* C15: calculate_sl_tp returns (None, None) or, for a BUY, levels with
\* stop < entry < target and, for a SELL, levels with target < entry < stop;
\* it raises nothing.
C15_LevelsOnTheRightSide ==
    RiskDone("calculate_sl_tp")
    => LET r == risk.result
           entry == risk.signal.entry_price
       IN  /\ r.exc = ""
           /\ risk.signal.action = "BUY"
              => \/ NoLevels(r)
                 \/ /\ ~IsNone(r.sl) /\ ~IsNone(r.tp) /\ ~IsNone(entry)
                    /\ FLt(r.sl, entry) /\ FLt(entry, r.tp)
           /\ risk.signal.action = "SELL"
              => \/ NoLevels(r)
                 \/ /\ ~IsNone(r.sl) /\ ~IsNone(r.tp) /\ ~IsNone(entry)
                    /\ FLt(r.tp, entry) /\ FLt(entry, r.sl)

\* The account's drawdown is above the limit of the settings.
DrawdownExceeded ==
    (risk.account_balance - risk.account.current_portfolio_value) * 100
        > risk.params.MAX_DRAWDOWN_PCT * risk.account_balance

PairFull == risk.account.open_for_pair >= risk.params.MAX_POSITIONS_PER_CURRENCY

BookFull == risk.account.open_total >= risk.params.MAX_CONCURRENT_POSITIONS

SizeInvalid == ~risk.proposed_size_lots.nan /\ risk.proposed_size_lots.v <= 0

\* C16: pre_trade_checks denies the trade whenever the account's drawdown
\* is above MAX_DRAWDOWN_PCT, whatever the proposed size.
C16_DrawdownDenies ==
    (RiskDone("pre_trade_checks") /\ DrawdownExceeded) => ~risk.result.allowed

\* C17: pre_trade_checks denies the trade whenever the open positions on
\* the signal's pair have reached MAX_POSITIONS_PER_CURRENCY or the open
\* positions in all have reached MAX_CONCURRENT_POSITIONS.
C17_PositionLimitsDeny ==
    (RiskDone("pre_trade_checks") /\ (PairFull \/ BookFull)) => ~risk.result.allowed

\* The reason of the first check that fails, in the order size, drawdown,
\* positions on the pair, positions in all.
FirstFailingCheck ==
    IF SizeInvalid THEN "INVALID_SIZE"
    ELSE IF DrawdownExceeded THEN "DRAWDOWN_EXCEEDED"
    ELSE IF PairFull THEN "MAX_POSITIONS_PER_CURRENCY"
    ELSE IF BookFull THEN "MAX_CONCURRENT_POSITIONS"
    ELSE Absent

\* C18: a denial of pre_trade_checks carries the reason of the first
\* failing check.
C18_DenialNamesFirstFailingCheck ==
    (RiskDone("pre_trade_checks") /\ ~risk.result.allowed)
    => Get(risk.result, "reason", Absent) = FirstFailingCheck

\* C19: pre_trade_checks never allows a trade whose proposed size is zero
\* or negative.
C19_NonPositiveSizeDenied ==
    (RiskDone("pre_trade_checks") /\ SizeInvalid) => ~risk.result.allowed

C19_Witness ==
    /\ RiskDone("pre_trade_checks")
    /\ risk.proposed_size_lots = F(0)
    /\ ~risk.result.allowed

\* C20: calculate_position_size with entry_price equal to stop_loss_price
\* returns None and raises nothing, whatever the pair, the balance and the
\* pip value.
C20_EqualPricesGiveNone ==
    (/\ RiskDone("calculate_position_size")
     /\ ~risk.entry_price.nan /\ ~risk.stop_loss_price.nan
     /\ risk.entry_price.v = risk.stop_loss_price.v)
    => (risk.result.exc = "" /\ IsNone(risk.result.lots))

C20_Witness ==
    /\ RiskDone("calculate_position_size")
    /\ risk.entry_price = F(1000) /\ risk.stop_loss_price = F(1000)
    /\ risk.pip_value_per_lot = F(0)
    /\ risk.result = [exc |-> "", lots |-> PyNone]

\* C21: a size calculate_position_size returns for numeric inputs is
\* (balance * risk fraction) / ((|entry - stop| / pip) * pip value per lot)
\* rounded to four decimals, the pip being 0.01 for a pair with JPY in its
\* name and 0.0001 otherwise; a balance of 100000 at a risk of 0.01 with entry
\* 1.1050, stop 1.1000 and a pip value of 10 on EUR_USD gives 2.0 lots.
NumericSizing ==
    /\ RiskDone("calculate_position_size")
    /\ ~risk.entry_price.nan /\ ~risk.stop_loss_price.nan /\ ~risk.pip_value_per_lot.nan

SizeReturned ==
    /\ NumericSizing
    /\ risk.result.exc = ""
    /\ ~IsNone(risk.result.lots)

Magnitude(n) == IF n < 0 THEN 0 - n ELSE n

C21_SizeIsRiskOverStopDistance ==
    /\ SizeReturned =>
          LET pip == IF HasJPY(risk.pair) THEN 100 * Ulp ELSE Ulp
              amount == risk.account_balance * risk.params.ACCOUNT_RISK_PER_TRADE_PCT
                            * 10 * pip
              perLot == Magnitude(risk.entry_price.v - risk.stop_loss_price.v)
                            * risk.pip_value_per_lot.v
          IN  2 * Magnitude(risk.result.lots.v * perLot - amount) <= Magnitude(perLot)
    /\ (/\ SizeReturned
        /\ risk.account_balance = 100000 /\ risk.pair = "EUR_USD"
        /\ risk.entry_price = F(11050 * Ulp) /\ risk.stop_loss_price = F(11000 * Ulp)
        /\ risk.pip_value_per_lot = F(10))
       => risk.result.lots = F(20000)

C21_Witness ==
    /\ SizeReturned
    /\ risk.account_balance = 100000
    /\ risk.entry_price = F(11050 * Ulp)
    /\ risk.result.lots = F(20000)

\* C22: a size calculate_position_size returns is greater than zero and a
\* multiple of 0.0001; a size that rounds to zero is reported as None, never
\* as 0.
C22_ReturnedSizeIsPositive ==
    SizeReturned => FGt(risk.result.lots, F(0))

\* C23: no operation of the risk manager raises for a data condition:
\* calculate_position_size returns None, and raises nothing, for every numeric
\* input with a pip value of zero or a balance of zero, and calculate_sl_tp
\* returns a result for a BUY or SELL signal that has an entry price, however
\* long the history.
C23_NoOperationRaises ==
    /\ NumericSizing => risk.result.exc = ""
    /\ (NumericSizing /\ (risk.pip_value_per_lot = F(0) \/ risk.account_balance = 0))
           => risk.result = Sizing(PyNone)
    /\ (/\ RiskDone("calculate_sl_tp")
        /\ risk.signal.action \in {"BUY", "SELL"}
        /\ ~IsNone(risk.signal.entry_price))
           => risk.result.exc = ""
    /\ RiskDone("pre_trade_checks") => risk.result.exc = ""

\* C24: building TradingParameters with a bounded field out of its range
\* (MAX_POSITIONS_PER_CURRENCY = 0, MAX_DRAWDOWN_PCT = 1.5) is rejected, and
\* every bounded field of the object in use is within its range in every
\* state, also after a later assignment.
WithinRange(f, v) ==
    /\ v >= FieldBounds[f].ge
    /\ "le" \in DOMAIN FieldBounds[f] => v <= FieldBounds[f].le

C24_BoundedFieldsStayInRange ==
    /\ (/\ trading.op = "construct"
        /\ \E f \in DOMAIN trading.kwargs : ~WithinRange(f, trading.kwargs[f]))
       => trading.exc = "ValidationError"
    /\ \A f \in DOMAIN FieldBounds : WithinRange(f, trading.params[f])

\* C25: every Position an adapter builds has long_units >= 0 and
\* short_units >= 0, whatever signed unit values the broker reports.
C25_PositionUnitsNonNegative ==
    (built.cls \in {"OandaPosition", "MT5Position"} /\ built.result # PyNone) =>
        /\ built.result.long_units >= 0
        /\ built.result.short_units >= 0

\* C26: a retried place_order or close_position call finishes: each time it
\* wakes from its back-off it runs one more attempt, it never runs more than
\* three, and when the third attempt fails with a broker error too the call
\* is over with a failure (RetryError) that carries that last error; it is
\* never waiting to retry again and never reports a success.
Exhausted(call) ==
    /\ call.attempt = 3
    /\ call.out.kind = "raise" /\ call.out.exc = "V20Error"

C26_RetriedCallEndsInFailure ==
    [][\A t \in Tasks :
          task'[t].op \in {"place_order", "close_position"} =>
              /\ task'[t].attempt <= 3
              /\ task'[t].pc = "sleep" => task'[t].attempt < 3
              /\ (task[t].pc = "sleep" /\ task'[t] # task[t])
                     => task'[t].attempt = task[t].attempt + 1
              /\ Exhausted(task'[t]) =>
                     /\ task'[t].pc = "done"
                     /\ task'[t].result.kind = "raise"
                     /\ task'[t].result.exc = "RetryError"
                     /\ task'[t].result.code = task'[t].out.code]_vars

C26_Witness ==
    \E t \in Tasks :
        /\ task[t].op = "place_order"
        /\ Exhausted(task[t])
        /\ task[t].out.code = 503
        /\ task[t].result = Raised("RetryError", 503)

\* C27: one call of the historical-candles query sends at most 3 HTTP
\* requests, also when every request fails.
C27_AtMostThreeRequests ==
    candles.requests <= 3

\* C28: close_position with a numeric units value acts on one side only: for
\* a negative value ("-100") it sends a close of that many long units and
\* no close of the short side, for a positive value ("100") a close of that
\* many short units and no close of the long side.
C28_NumericUnitsCloseOneSide ==
    \A t \in Tasks :
        Ran(t, "close_position") =>
            /\ task[t].units = "-100" => task[t].sent = <<[longUnits |-> "100.0"]>>
            /\ task[t].units = "100" => task[t].sent = <<[shortUnits |-> "100.0"]>>

\* C29: when the broker fills the close of a side, the order close_position
\* returns for that fill has status FILLED, never PENDING.
FromCloseFill(order) == order.order_id \in {CloseTxnId.long, CloseTxnId.short}

C29_FilledCloseIsFilled ==
    \A t \in Tasks :
        (/\ task[t].op = "close_position"
         /\ ReturnedOrder(t)
         /\ FromCloseFill(task[t].result.order))
        => task[t].result.order.status = "FILLED"

\* C30: the order place_order builds from a successful response is FILLED
\* when the response holds a fill transaction, CANCELLED when it holds a
\* cancel transaction and no fill, and otherwise has the canonical
\* counterpart of the create transaction's state (PENDING when the
\* transaction names none); a response with a fill or a cancel never gives
\* PENDING.
OrderBuilt == built.cls = "OandaTradeOrder" /\ built.result # PyNone

====
